---------------------------- MODULE Spec2Model ----------------------------
(***************************************************************************)
(* A model of NovaAtom's CodeEditor (src/code_editor.py): the autocomplete *)
(* engine with its overlay, the symbol navigator and the extension loader. *)
(*                                                                         *)
(* Strings are sequences of one-character strings.  The Tk text widget is   *)
(* the pair (text, cursor): text is the buffer without the final newline   *)
(* the widget always keeps, cursor the 0-based offset of the insert mark.  *)
(***************************************************************************)
EXTENDS Integers, Sequences, FiniteSets, TLC

(***************************************************************************)
(* Bounds of the model.                                                    *)
(***************************************************************************)
\* the user types only while the buffer is shorter than this
MaxTyped == 3
\* completions are inserted only while the buffer stays within this length
MaxText == 4
\* number of entries of a directory listing of the extensions directory
MaxFiles == 3

(***************************************************************************)
(* Characters and strings.                                                 *)
(***************************************************************************)
Alphabet ==
    <<"\t", "\n", "\f", " ", "#", "(", ")", ".", "0", "1", ":", "=", "F", "N",
      "T", "_", "a", "b", "c", "d", "e", "f", "g", "h", "i", "j", "k", "l", "m",
      "n", "o", "p", "q", "r", "s", "t", "u", "v", "w", "x", "y", "z">>

\* the code point of each character of Alphabet, in the same order
CodePoints ==
    <<9, 10, 12, 32, 35, 40, 41, 46, 48, 49, 58, 61, 70, 78,
      84, 95, 97, 98, 99, 100, 101, 102, 103, 104, 105, 106, 107, 108, 109,
      110, 111, 112, 113, 114, 115, 116, 117, 118, 119, 120, 121, 122>>

Chars == {Alphabet[i] : i \in DOMAIN Alphabet}

\* ord(): the code point of a character
OrdOf == [c \in Chars |-> CodePoints[CHOOSE i \in DOMAIN Alphabet : Alphabet[i] = c]]

Ord(c) == OrdOf[c]

\* \w of Python's re and Tk's word characters: digits, letters, underscore
WordChars ==
    {c \in Chars : \/ OrdOf[c] >= 48 /\ OrdOf[c] <= 57
                   \/ OrdOf[c] >= 65 /\ OrdOf[c] <= 90
                   \/ OrdOf[c] = 95
                   \/ OrdOf[c] >= 97 /\ OrdOf[c] <= 122}

IsWordChar(c) == c \in WordChars

\* what str.strip() removes and what \s matches
IsSpace(c) == c \in {"\t", "\n", "\f", " "}

\* the characters str.splitlines() breaks a line at
IsLineBreak(c) == c \in {"\n", "\f"}

SetMin(S) == CHOOSE x \in S : \A y \in S : x <= y

Drop(s, n) == SubSeq(s, n + 1, Len(s))

\* str.startswith
StartsWith(s, p) == Len(p) <= Len(s) /\ \A i \in 1..Len(p) : s[i] = p[i]

\* str.endswith
EndsWith(s, p) ==
    Len(p) <= Len(s) /\ \A i \in 1..Len(p) : s[Len(s) - Len(p) + i] = p[i]

\* str.strip()
Strip(s) ==
    LET keep == {i \in 1..Len(s) : ~IsSpace(s[i])}
    IN  IF keep = {} THEN <<>>
        ELSE SubSeq(s, SetMin(keep), CHOOSE j \in keep : \A k \in keep : k <= j)

\* str.splitlines()
RECURSIVE SplitLines(_)
SplitLines(s) ==
    IF s = <<>> THEN <<>>
    ELSE LET brk == {i \in 1..Len(s) : IsLineBreak(s[i])}
         IN  IF brk = {} THEN <<s>>
             ELSE LET k == SetMin(brk)
                  IN  <<SubSeq(s, 1, k - 1)>> \o SplitLines(Drop(s, k))

\* the comparison of two str values: by code point, a proper prefix first
StrLess(a, b) ==
    LET n    == IF Len(a) < Len(b) THEN Len(a) ELSE Len(b)
        diff == {i \in 1..n : a[i] # b[i]}
    IN  IF diff = {} THEN Len(a) < Len(b)
        ELSE Ord(a[SetMin(diff)]) < Ord(b[SetMin(diff)])

\* sorted() of a set of strings
RECURSIVE Sorted(_)
Sorted(S) ==
    IF S = {} THEN <<>>
    ELSE LET m == CHOOSE x \in S : \A y \in S \ {x} : StrLess(x, y)
         IN  <<m>> \o Sorted(S \ {m})

\* re.findall(r"\b\w+\b", s), as a set: the maximal runs of word characters
FindWords(s) ==
    {SubSeq(s, i, j) : <<i, j>> \in
        {p \in (1..Len(s)) \X (1..Len(s)) :
            /\ p[1] <= p[2]
            /\ \A k \in p[1]..p[2] : IsWordChar(s[k])
            /\ (p[1] = 1 \/ ~IsWordChar(s[p[1] - 1]))
            /\ (p[2] = Len(s) \/ ~IsWordChar(s[p[2] + 1]))}}

\* keyword.kwlist
kwlist ==
    { <<"F","a","l","s","e">>, <<"N","o","n","e">>, <<"T","r","u","e">>,
      <<"a","n","d">>, <<"a","s">>, <<"a","s","s","e","r","t">>,
      <<"a","s","y","n","c">>, <<"a","w","a","i","t">>, <<"b","r","e","a","k">>,
      <<"c","l","a","s","s">>, <<"c","o","n","t","i","n","u","e">>,
      <<"d","e","f">>, <<"d","e","l">>, <<"e","l","i","f">>, <<"e","l","s","e">>,
      <<"e","x","c","e","p","t">>, <<"f","i","n","a","l","l","y">>,
      <<"f","o","r">>, <<"f","r","o","m">>, <<"g","l","o","b","a","l">>,
      <<"i","f">>, <<"i","m","p","o","r","t">>, <<"i","n">>, <<"i","s">>,
      <<"l","a","m","b","d","a">>, <<"n","o","n","l","o","c","a","l">>,
      <<"n","o","t">>, <<"o","r">>, <<"p","a","s","s">>, <<"r","a","i","s","e">>,
      <<"r","e","t","u","r","n">>, <<"t","r","y">>, <<"w","h","i","l","e">>,
      <<"w","i","t","h">>, <<"y","i","e","l","d">>
    }

(***************************************************************************)
(* The state.                                                              *)
(***************************************************************************)
VARIABLES
    text,                 \* self.text: the buffer, without Tk's final newline
    cursor,               \* the insert mark, as an offset into text
    autocomplete_window,  \* "unset" (no attribute), "live" or "destroyed"
    autocomplete_listbox, \* the entries, the bound prefix and the selection
    liveCount,            \* overlay toplevels created and not yet destroyed
    peakLive,             \* most overlays alive at one point of the last handler
    last,                 \* what the last handler did
    definitionMark,       \* Tk line carrying the "definition" tag, 0: none
    notices,              \* messagebox notices of the last handler
    extDirExists,         \* os.path.isdir(ext_dir)
    listing,              \* os.listdir(ext_dir)
    behaviour,            \* what each file's module does on import and register
    loadPc,               \* position of _load_extensions
    loadIdx,              \* index into listing of the next file
    extensions,           \* self.extensions: module names
    extensions_menu,      \* the commands of the Extensions menu
    stderr,               \* diagnostics printed by the loader
    sysPath,              \* entries the loader has put on sys.path
    attempted,            \* module names import_module was called with
    registerCalls         \* module names whose register was called, in order

bufferVars  == <<text, cursor>>
overlayVars == <<autocomplete_window, autocomplete_listbox, liveCount>>
navVars     == <<definitionMark, notices>>
loadVars    == <<extDirExists, listing, behaviour, loadPc, loadIdx, extensions,
                 extensions_menu, stderr, sysPath, attempted, registerCalls>>
vars == <<text, cursor, autocomplete_window, autocomplete_listbox,
          liveCount, peakLive, last, definitionMark, notices, extDirExists,
          listing, behaviour, loadPc, loadIdx, extensions, extensions_menu,
          stderr, sysPath, attempted, registerCalls>>


(***************************************************************************)
(* The Tk text widget: indices, words, insertion.                          *)
(***************************************************************************)
\* the character at offset i; the widget ends with a newline of its own
CharAt(buf, i) == IF i < Len(buf) THEN buf[i + 1] ELSE "\n"

\* text.get(a, b)
TextGet(buf, a, b) == SubSeq(buf \o <<"\n">>, a + 1, b)

\* text.get("1.0", tk.END)
TextGetAll(buf) == buf \o <<"\n">>

\* "<index> wordstart": the first character of the word containing index; a
\* word is a run of word characters or a single other character
WordStart(buf, idx) ==
    IF ~IsWordChar(CharAt(buf, idx)) THEN idx
    ELSE SetMin({j \in 0..idx : \A k \in j..idx : IsWordChar(CharAt(buf, k))})

\* "<index> wordend": just after the last character of that word; the last
\* character of the widget is left as it is
WordEnd(buf, idx) ==
    IF idx >= Len(buf) THEN idx
    ELSE IF ~IsWordChar(CharAt(buf, idx)) THEN idx + 1
    ELSE CHOOSE j \in (idx + 1)..Len(buf) :
            /\ \A k \in idx..(j - 1) : IsWordChar(CharAt(buf, k))
            /\ ~IsWordChar(CharAt(buf, j))

\* text.insert(tk.INSERT, s): the text after the insertion
InsertAt(buf, pos, s) == SubSeq(buf, 1, pos) \o s \o Drop(buf, pos)

GetCurrentWord ==
    Strip(TextGet(text, WordStart(text, cursor), WordEnd(text, cursor)))

GetCurrentPrefix == TextGet(text, WordStart(text, cursor), cursor)

(***************************************************************************)
(* What show_autocomplete, goto_definition or a handler of the overlay did, *)
(* kept in `last` until the handler has returned to the main loop; prefix  *)
(* is the prefix, or the word, the handler found at the cursor, or the     *)
(* prefix the overlay's handlers are bound to.                             *)
(***************************************************************************)
Did(outcome, prefix, candidates, remote, fetched, inserted, replaced) ==
    [outcome |-> outcome, prefix |-> prefix, candidates |-> candidates,
     remote |-> remote, fetched |-> fetched, inserted |-> inserted,
     replaced |-> replaced]

NoLast == Did("idle", <<>>, <<>>, <<>>, FALSE, <<>>, FALSE)

\* the main loop waits for the next event
Idle == last = NoLast

DeadListbox == [items |-> <<>>, prefix |-> <<>>, sel |-> 0]

(***************************************************************************)
(* The remote completion source.                                           *)
(***************************************************************************)
\* the chat completion's message content, for the replies that carry one
RemoteContents ==
    { <<>>,
      <<"o">>,
      <<"o", "\n", "o", "r">>,
      <<"o", "r", "\n", "o", "o">>,
      <<"o", "r", "\n", "o", "r">>,
      <<" ", "o", "r", " ", "\n", "\n">>,
      <<"r", "o">> }

\* the ways a call of _fetch_code_suggestions fails: no OPENAI_API_KEY in
\* the environment, requests.post fails or times out, a status other than
\* 200, a body that is not JSON, a JSON body without the expected fields, an
\* empty "choices" list, a null message content
FailureKinds ==
    {"no_api_key", "transport_error", "timeout", "bad_status", "not_json",
     "missing_field", "empty_choices", "null_content"}

\* what one call of _fetch_code_suggestions meets: a failure, or a reply
\* with a message content
Responses ==
    {[kind |-> k, content |-> <<>>] : k \in FailureKinds}
    \cup {[kind |-> "ok", content |-> c] : c \in RemoteContents}

\* the exception the body of the try statement raises, "none" when it runs
\* to a return
ExceptionIn(resp) ==
    CASE resp.kind = "transport_error" -> "ConnectionError"
      [] resp.kind = "timeout"         -> "Timeout"
      [] resp.kind = "not_json"        -> "JSONDecodeError"
      [] resp.kind = "missing_field"   -> "KeyError"
      [] resp.kind = "empty_choices"   -> "IndexError"
      [] resp.kind = "null_content"    -> "AttributeError"
      [] OTHER                         -> "none"

\* a mutant of Handled: only the errors of requests are caught
HandledRequestErrorsOnly(exc) == exc \in {"ConnectionError", "Timeout"}

\* `except Exception`: every exception the try body raises derives from it
Handled(exc) ==
    exc \in {"ConnectionError", "Timeout", "JSONDecodeError", "KeyError",
             "IndexError", "AttributeError"}

\* the call ends in an exception instead of a return
FetchRaises(resp) ==
    /\ resp.kind # "no_api_key"
    /\ ExceptionIn(resp) # "none"
    /\ ~Handled(ExceptionIn(resp))

\* the lines of the reply, stripped, the blank ones left out
SuggestionLines(content) ==
    LET lines    == SplitLines(content)
        stripped == [i \in DOMAIN lines |-> Strip(lines[i])]
    IN  SelectSeq(stripped, LAMBDA l : l # <<>>)

FetchCodeSuggestions(resp) ==
    IF resp.kind = "no_api_key" THEN <<>>
    ELSE IF resp.kind = "bad_status" THEN <<>>
    ELSE IF ExceptionIn(resp) # "none" THEN <<>>
    ELSE SuggestionLines(resp.content)

(***************************************************************************)
(* show_autocomplete and the overlay.                                      *)
(***************************************************************************)
LocalSuggestions(prefix) ==
    LET local_suggestions == kwlist \cup FindWords(TextGetAll(text))
    IN  Sorted({s \in local_suggestions : StartsWith(s, prefix) /\ s # prefix})

\* a mutant of Suggestions: the local candidates are added to the remote
\* ones without waiting for the remote result to be empty
MergedSuggestions(prefix, remote) ==
    SelectSeq(remote, LAMBDA s : StartsWith(s, prefix)) \o LocalSuggestions(prefix)

Suggestions(prefix, remote) ==
    LET suggestions == SelectSeq(remote, LAMBDA s : StartsWith(s, prefix))
    IN  IF suggestions # <<>> THEN suggestions ELSE LocalSuggestions(prefix)

\* a mutant of CompletionSuffix: the prefix is not cut off
WholeCandidate(value, prefix) == value

\* value[len(prefix):]
CompletionSuffix(value, prefix) == Drop(value, Len(prefix))

Max2(a, b) == IF a >= b THEN a ELSE b

\* a mutant of OpenAutocompleteWindow: the open overlay is not destroyed
OpenWithoutDestroy(matches, prefix, bboxVisible) ==
    IF ~bboxVisible
    THEN /\ UNCHANGED overlayVars
         /\ peakLive' = liveCount
    ELSE /\ autocomplete_window' = "live"
         /\ autocomplete_listbox' = [items |-> matches, prefix |-> prefix, sel |-> 0]
         /\ liveCount' = liveCount + 1
         /\ peakLive' = Max2(liveCount, liveCount + 1)

OpenAutocompleteWindow(matches, prefix, bboxVisible) ==
    LET hadLive      == autocomplete_window = "live"
        afterDestroy == IF hadLive THEN liveCount - 1 ELSE liveCount
    IN  IF ~bboxVisible
        THEN /\ autocomplete_window' =
                    IF hadLive THEN "destroyed" ELSE autocomplete_window
             /\ autocomplete_listbox' =
                    IF hadLive THEN DeadListbox ELSE autocomplete_listbox
             /\ liveCount' = afterDestroy
             /\ peakLive' = liveCount
        ELSE /\ autocomplete_window' = "live"
             /\ autocomplete_listbox' =
                    [items |-> matches, prefix |-> prefix, sel |-> 0]
             /\ liveCount' = afterDestroy + 1
             /\ peakLive' = Max2(liveCount, afterDestroy + 1)

\* a mutant of NothingToComplete: the test of the prefix is left out
AlwaysComplete(prefix) == FALSE

\* `not prefix.strip()`
NothingToComplete(prefix) == Strip(prefix) = <<>>

ShowAutocomplete(resp, bboxVisible) ==
    LET prefix == GetCurrentPrefix
        remote == FetchCodeSuggestions(resp)
        suggestions == Suggestions(prefix, remote)
        fetched == resp.kind # "no_api_key"
    IN  /\ Idle
        /\ UNCHANGED <<navVars, loadVars>>
        /\ IF NothingToComplete(prefix)
           THEN /\ last' = Did("noop", prefix, <<>>, <<>>, FALSE, <<>>, FALSE)
                /\ UNCHANGED <<bufferVars, overlayVars, peakLive>>
           ELSE IF FetchRaises(resp)
           THEN /\ last' = Did("raised", prefix, <<>>, <<>>, fetched, <<>>, FALSE)
                /\ UNCHANGED <<bufferVars, overlayVars, peakLive>>
           ELSE IF suggestions = <<>>
           THEN /\ last' = Did("empty", prefix, suggestions, remote, fetched, <<>>,
                               FALSE)
                /\ UNCHANGED <<bufferVars, overlayVars, peakLive>>
           ELSE IF Len(suggestions) = 1
           THEN LET suffix == CompletionSuffix(suggestions[1], prefix)
                IN  /\ Len(text) + Len(suffix) <= MaxText
                    /\ text' = InsertAt(text, cursor, suffix)
                    /\ cursor' = cursor + Len(suffix)
                    /\ last' = Did("insert", prefix, suggestions, remote,
                                   fetched, suffix, FALSE)
                    /\ UNCHANGED <<overlayVars, peakLive>>
           ELSE /\ OpenAutocompleteWindow(suggestions, prefix, bboxVisible)
                /\ last' = Did(IF bboxVisible THEN "overlay" ELSE "no_bbox",
                               prefix, suggestions, remote, fetched, <<>>,
                               autocomplete_window = "live")
                /\ UNCHANGED bufferVars

\* the handler has returned: root.mainloop() takes the next event
ReturnToMainloop ==
    /\ ~Idle
    /\ last' = NoLast
    /\ peakLive' = liveCount
    /\ notices' = <<>>
    /\ UNCHANGED <<bufferVars, overlayVars, definitionMark, loadVars>>

\* the user moves the listbox selection (a click, an arrow key)
ListboxSelect(i) ==
    /\ Idle
    /\ autocomplete_window = "live"
    /\ i \in 1..Len(autocomplete_listbox.items)
    /\ autocomplete_listbox' = [autocomplete_listbox EXCEPT !.sel = i]
    /\ UNCHANGED <<bufferVars, autocomplete_window, liveCount, peakLive, last,
                   navVars, loadVars>>

\* a mutant of InsertAutocomplete: the overlay is destroyed only after an
\* insertion
InsertWithoutDestroy(prefix, sel) ==
    LET suffix == IF sel # 0
                  THEN CompletionSuffix(autocomplete_listbox.items[sel], prefix)
                  ELSE <<>>
    IN  /\ Len(text) + Len(suffix) <= MaxText
        /\ text' = InsertAt(text, cursor, suffix)
        /\ cursor' = cursor + Len(suffix)
        /\ IF sel # 0
           THEN /\ autocomplete_window' = "destroyed"
                /\ autocomplete_listbox' = DeadListbox
                /\ liveCount' = liveCount - 1
           ELSE UNCHANGED overlayVars
        /\ peakLive' = liveCount
        /\ last' = Did(IF sel # 0 THEN "confirm" ELSE "confirm_none", prefix,
                       <<>>, <<>>, FALSE, suffix, FALSE)
        /\ UNCHANGED <<navVars, loadVars>>

\* _insert_autocomplete(prefix) with the listbox selection sel (0: none)
InsertAutocomplete(prefix, sel) ==
    LET suffix == IF sel # 0
                  THEN CompletionSuffix(autocomplete_listbox.items[sel], prefix)
                  ELSE <<>>
    IN  /\ Len(text) + Len(suffix) <= MaxText
        /\ text' = InsertAt(text, cursor, suffix)
        /\ cursor' = cursor + Len(suffix)
        /\ autocomplete_window' = "destroyed"
        /\ autocomplete_listbox' = DeadListbox
        /\ liveCount' = liveCount - 1
        /\ peakLive' = liveCount
        /\ last' = Did(IF sel # 0 THEN "confirm" ELSE "confirm_none", prefix,
                       <<>>, <<>>, FALSE, suffix, FALSE)
        /\ UNCHANGED <<navVars, loadVars>>

\* <Return> on the listbox
ListboxReturn ==
    /\ Idle
    /\ autocomplete_window = "live"
    /\ InsertAutocomplete(autocomplete_listbox.prefix, autocomplete_listbox.sel)

\* <Double-Button-1> on entry i: the first click selects it
ListboxDoubleClick(i) ==
    /\ Idle
    /\ autocomplete_window = "live"
    /\ i \in 1..Len(autocomplete_listbox.items)
    /\ InsertAutocomplete(autocomplete_listbox.prefix, i)

\* <Escape> on the listbox
ListboxEscape ==
    /\ Idle
    /\ autocomplete_window = "live"
    /\ autocomplete_window' = "destroyed"
    /\ autocomplete_listbox' = DeadListbox
    /\ liveCount' = liveCount - 1
    /\ peakLive' = liveCount
    /\ last' = Did("cancel", autocomplete_listbox.prefix, <<>>, <<>>, FALSE,
                   <<>>, FALSE)
    /\ UNCHANGED <<bufferVars, navVars, loadVars>>

(***************************************************************************)
(* The user edits the buffer.                                              *)
(***************************************************************************)
TypeChars == {"o", " "}

TypeChar(c) ==
    /\ Idle
    /\ Len(text) < MaxTyped
    /\ text' = InsertAt(text, cursor, <<c>>)
    /\ cursor' = cursor + 1
    /\ UNCHANGED <<overlayVars, peakLive, last, navVars, loadVars>>

MoveCursor(p) ==
    /\ Idle
    /\ p \in 0..Len(text)
    /\ p # cursor
    /\ cursor' = p
    /\ UNCHANGED <<text, overlayVars, peakLive, last, navVars, loadVars>>

(***************************************************************************)
(* The editor after construction, and the editing session.                 *)
(***************************************************************************)
InitLoadIdle ==
    /\ extDirExists = FALSE
    /\ listing = <<>>
    /\ behaviour = <<>>
    /\ loadPc = "done"
    /\ loadIdx = 1
    /\ extensions = <<>>
    /\ extensions_menu = <<>>
    /\ stderr = <<>>
    /\ sysPath = 0
    /\ attempted = <<>>
    /\ registerCalls = <<>>

InitEditor ==
    /\ text = <<>>
    /\ cursor = 0
    /\ autocomplete_window = "unset"
    /\ autocomplete_listbox = DeadListbox
    /\ liveCount = 0
    /\ peakLive = 0
    /\ last = NoLast
    /\ definitionMark = 0
    /\ notices = <<>>

Init ==
    /\ InitEditor
    /\ InitLoadIdle

Next ==
    \/ \E c \in TypeChars : TypeChar(c)
    \/ \E p \in 0..MaxText : MoveCursor(p)
    \/ \E resp \in Responses, bboxVisible \in BOOLEAN :
            ShowAutocomplete(resp, bboxVisible)
    \/ \E i \in 1..Len(autocomplete_listbox.items) : ListboxSelect(i)
    \/ ListboxReturn
    \/ \E i \in 1..Len(autocomplete_listbox.items) : ListboxDoubleClick(i)
    \/ ListboxEscape
    \/ ReturnToMainloop

Spec == Init /\ [][Next]_vars

(***************************************************************************)
(* _load_extensions, one action for each step of the loop.                 *)
(***************************************************************************)
\* the files a listing of the extensions directory is drawn from
ExtFiles ==
    { <<"a", ".", "p", "y">>,
      <<"b", ".", "p", "y">>,
      <<"_", "p", ".", "p", "y">>,
      <<"n", ".", "m", "d">> }

\* os.path.splitext(fname)[0]: the name up to its last dot, leading dots kept
SplitExtRoot(fname) ==
    LET lead == IF \E i \in 1..Len(fname) : fname[i] # "."
                THEN SetMin({i \in 1..Len(fname) : fname[i] # "."})
                ELSE Len(fname) + 1
        dots == {i \in 1..Len(fname) : fname[i] = "." /\ i > lead}
    IN  IF dots = {} THEN fname
        ELSE SubSeq(fname, 1, (CHOOSE d \in dots : \A e \in dots : e <= d) - 1)

\* the test of line 100: a .py file whose name does not start with "_"
IsExtensionFile(fname) ==
    ~(~EndsWith(fname, <<".", "p", "y">>) \/ StartsWith(fname, <<"_">>))

\* What a module does: the import returns or raises; the module has a
\* register attribute or not; register adds `adds` commands through
\* add_extension_command and then returns or raises.  "Exception" is an
\* exception `except Exception` catches, "BaseException" one it does not
\* (SystemExit from sys.exit(), KeyboardInterrupt).
ModuleKinds ==
    { [import |-> "ok", hasRegister |-> TRUE, adds |-> 1, ends |-> "return"],
      [import |-> "ok", hasRegister |-> FALSE, adds |-> 0, ends |-> "return"],
      [import |-> "ok", hasRegister |-> TRUE, adds |-> 0, ends |-> "Exception"],
      [import |-> "ok", hasRegister |-> TRUE, adds |-> 1, ends |-> "Exception"],
      [import |-> "ok", hasRegister |-> TRUE, adds |-> 0, ends |-> "BaseException"],
      [import |-> "Exception", hasRegister |-> FALSE, adds |-> 0, ends |-> "return"],
      [import |-> "BaseException", hasRegister |-> FALSE, adds |-> 0,
       ends |-> "return"] }

\* the directory listings: up to MaxFiles files, each once, in any order
Listings ==
    {l \in UNION {[1..n -> ExtFiles] : n \in 0..MaxFiles} :
        \A i \in DOMAIN l : \A j \in DOMAIN l : i # j => l[i] # l[j]}

\* a mutant of AfterImportError: a failed import ends the loop
AbortAfterImportError == Len(listing) + 1

\* `continue` after a failed import: on to the next file
AfterImportError == loadIdx + 1

\* add_extension_command, called n times by the register of module mod
AddExtensionCommands(menu, mod, n) ==
    menu \o [i \in 1..n |-> mod]

\* lines 95 to 98: no directory, no extensions; else the loop starts
LoadStart ==
    /\ loadPc = "start"
    /\ IF ~extDirExists
       THEN /\ loadPc' = "done"
            /\ UNCHANGED sysPath
       ELSE /\ loadPc' = "loop"
            /\ sysPath' = sysPath + 1
    /\ UNCHANGED <<extDirExists, listing, behaviour, loadIdx, extensions,
                   extensions_menu, stderr, attempted, registerCalls>>
    /\ UNCHANGED <<bufferVars, overlayVars, peakLive, last, navVars>>

\* lines 99 to 116: the loop body for the file listing[loadIdx]
LoadFile ==
    /\ loadPc = "loop"
    /\ loadIdx <= Len(listing)
    /\ LET fname    == listing[loadIdx]
           mod_name == SplitExtRoot(fname)
           module   == behaviour[mod_name]
       IN  IF ~IsExtensionFile(fname)
           THEN /\ loadIdx' = loadIdx + 1
                /\ UNCHANGED <<loadPc, extensions, extensions_menu, stderr,
                               attempted, registerCalls>>
           ELSE /\ attempted' = Append(attempted, mod_name)
                /\ IF module.import = "Exception"
                   THEN /\ stderr' = Append(stderr,
                               [msg |-> "Failed to load extension", mod |-> mod_name])
                        /\ loadIdx' = AfterImportError
                        /\ UNCHANGED <<loadPc, extensions, extensions_menu,
                                       registerCalls>>
                   ELSE IF module.import = "BaseException"
                   THEN /\ loadPc' = "raised"
                        /\ UNCHANGED <<loadIdx, extensions, extensions_menu,
                                       stderr, registerCalls>>
                   ELSE IF ~module.hasRegister
                   THEN /\ loadIdx' = loadIdx + 1
                        /\ UNCHANGED <<loadPc, extensions, extensions_menu,
                                       stderr, registerCalls>>
                   ELSE /\ registerCalls' = Append(registerCalls, mod_name)
                        /\ extensions_menu' =
                              AddExtensionCommands(extensions_menu, mod_name,
                                                   module.adds)
                        /\ IF module.ends = "return"
                           THEN /\ extensions' = Append(extensions, mod_name)
                                /\ loadIdx' = loadIdx + 1
                                /\ UNCHANGED <<loadPc, stderr>>
                           ELSE IF module.ends = "Exception"
                           THEN /\ stderr' = Append(stderr,
                                       [msg |-> "Error initializing extension",
                                        mod |-> mod_name])
                                /\ loadIdx' = loadIdx + 1
                                /\ UNCHANGED <<loadPc, extensions>>
                           ELSE /\ loadPc' = "raised"
                                /\ UNCHANGED <<loadIdx, extensions, stderr>>
    /\ UNCHANGED <<extDirExists, listing, behaviour, sysPath>>
    /\ UNCHANGED <<bufferVars, overlayVars, peakLive, last, navVars>>

\* line 117, after the last file
LoadFinish ==
    /\ loadPc = "loop"
    /\ loadIdx > Len(listing)
    /\ sysPath' = sysPath - 1
    /\ loadPc' = "done"
    /\ UNCHANGED <<extDirExists, listing, behaviour, loadIdx, extensions,
                   extensions_menu, stderr, attempted, registerCalls>>
    /\ UNCHANGED <<bufferVars, overlayVars, peakLive, last, navVars>>

\* __init__ at the call of _load_extensions (line 23), for every directory
\* listing and every behaviour of the modules in it
InitLoad ==
    /\ InitEditor
    /\ extDirExists \in BOOLEAN
    /\ listing \in Listings
    /\ ~extDirExists => listing = <<>>
    /\ behaviour \in
          [{SplitExtRoot(listing[i]) : i \in {j \in DOMAIN listing :
                                               IsExtensionFile(listing[j])}}
              -> ModuleKinds]
    /\ loadPc = "start"
    /\ loadIdx = 1
    /\ extensions = <<>>
    /\ extensions_menu = <<>>
    /\ stderr = <<>>
    /\ sysPath = 0
    /\ attempted = <<>>
    /\ registerCalls = <<>>

NextLoad ==
    \/ LoadStart
    \/ LoadFile
    \/ LoadFinish

SpecLoad == InitLoad /\ [][NextLoad]_vars

(***************************************************************************)
(* goto_definition.                                                        *)
(***************************************************************************)
\* the contents of the files the user opens
FileContents ==
    { <<"d", "e", "f", " ", "f", "(", ")", ":", "\n", " ", "p", "a", "s", "s",
        "\n", "d", "e", "f", " ", "f", "(", ")", ":", " ", "p", "a", "s", "s">>,
      <<"x", " ", "=", " ", "f", "\n", " ", " ", "c", "l", "a", "s", "s", " ",
        "f", ":", "\n", "d", "e", "f", " ", "f">>,
      <<"d", "e", "f", " ", "f", "o", "\n", "d", "e", "f", " ", "f">>,
      <<"f", "\f", "g", "\n", "d", "e", "f", " ", "f">>,
      <<"x", "\f", "d", "e", "f", " ", "f", "\n", "f">>,
      <<"d", "e", "f", "f", "\n", "#", "d", "e", "f", " ", "f", "\n", "f">>,
      <<"d", "e", "f", "\t", "f", "\n", "d", "e", "f", " ", " ", "f">> }

\* open_file, the user confirming and the file being read: the buffer is
\* replaced, its tags go with the deleted text, the insert mark ends up
\* after the inserted text
OpenFile(content) ==
    /\ Idle
    /\ text' = content
    /\ cursor' = Len(content)
    /\ definitionMark' = 0
    /\ UNCHANGED <<overlayVars, peakLive, last, notices, loadVars>>

\* the number of lines of the Tk text widget: it breaks lines at "\n" only
TkLineCount(buf) == 1 + Cardinality({i \in 1..Len(buf) : buf[i] = "\n"})

\* the offset of the Tk index "<i>.0"; a line past the last one is the end
\* of the text
TkLineStart(buf, i) ==
    IF i > TkLineCount(buf) THEN Len(buf)
    ELSE IF i = 1 THEN 0
    ELSE CHOOSE k \in 1..Len(buf) :
            /\ buf[k] = "\n"
            /\ Cardinality({j \in 1..k : buf[j] = "\n"}) = i - 1

\* the offset of the Tk index "<i>.0 lineend"
TkLineEnd(buf, i) ==
    IF i >= TkLineCount(buf) THEN Len(buf) ELSE TkLineStart(buf, i + 1) - 1

\* \b between line[e] and line[e + 1]
WordBoundaryAfter(line, e) ==
    (e >= 1 /\ e <= Len(line) /\ IsWordChar(line[e]))
        # (e + 1 >= 1 /\ e + 1 <= Len(line) /\ IsWordChar(line[e + 1]))

\* the keywords of the pattern of line 201
DefinitionKeywords == {<<"d", "e", "f">>, <<"c", "l", "a", "s", "s">>}

\* pattern.search(line) for the pattern ^\s*(def|class)\s+<word>\b
PatternSearch(line, word) ==
    \E a \in 0..Len(line), kw \in DefinitionKeywords, b \in 1..Len(line) :
        LET afterKw   == a + Len(kw)
            afterWs   == afterKw + b
            afterWord == afterWs + Len(word)
        IN  /\ afterWord <= Len(line)
            /\ \A k \in 1..a : IsSpace(line[k])
            /\ SubSeq(line, a + 1, afterKw) = kw
            /\ \A k \in (afterKw + 1)..afterWs : IsSpace(line[k])
            /\ SubSeq(line, afterWs + 1, afterWord) = word
            /\ WordBoundaryAfter(line, afterWord)

\* the loop of lines 203 to 212: the number of the first matching line, 0
\* when the loop ends without a match
FirstMatch(lines, word) ==
    LET hits == {i \in DOMAIN lines : PatternSearch(lines[i], word)}
    IN  IF hits = {} THEN 0 ELSE SetMin(hits)

GotoDefinition ==
    LET word  == GetCurrentWord
        lines == SplitLines(TextGetAll(text))
        i     == FirstMatch(lines, word)
    IN  /\ Idle
        /\ UNCHANGED <<text, overlayVars, peakLive, loadVars>>
        /\ IF word = <<>>
           THEN /\ notices' = <<[msg |-> "No symbol selected", word |-> <<>>]>>
                /\ last' = Did("goto_none", word, <<>>, <<>>, FALSE, <<>>, FALSE)
                /\ UNCHANGED <<cursor, definitionMark>>
           ELSE IF i # 0
           THEN /\ definitionMark' =
                      IF TkLineStart(text, i) < TkLineEnd(text, i) THEN i ELSE 0
                /\ cursor' = TkLineStart(text, i)
                /\ notices' = <<>>
                /\ last' = Did("goto_hit", word, <<>>, <<>>, FALSE, <<>>, FALSE)
           ELSE /\ notices' = <<[msg |-> "Definition not found", word |-> word]>>
                /\ last' = Did("goto_miss", word, <<>>, <<>>, FALSE, <<>>, FALSE)
                /\ UNCHANGED <<cursor, definitionMark>>

NextNav ==
    \/ \E content \in FileContents : OpenFile(content)
    \/ \E p \in 0..Len(text) : MoveCursor(p)
    \/ GotoDefinition
    \/ ReturnToMainloop

SpecNav == Init /\ [][NextNav]_vars

(***************************************************************************)
(* Properties of the completion candidates.                                *)
(***************************************************************************)
Range(f) == {f[i] : i \in DOMAIN f}

\* show_autocomplete has acted on its candidate list
ActedOn == last.outcome \in {"insert", "overlay"}

\* the strings of a remote result that start with the prefix and differ from it
Usable(remote, prefix) ==
    {s \in Range(remote) : StartsWith(s, prefix) /\ s # prefix}

\* C1: every candidate show_autocomplete inserts or lists starts with the
\* prefix and none of them is the prefix itself.
C1_CandidatesExtendPrefix ==
    ActedOn =>
        \A i \in DOMAIN last.candidates :
            /\ StartsWith(last.candidates[i], last.prefix)
            /\ last.candidates[i] # last.prefix

\* C2: when the remote result holds a string that starts with the prefix and
\* differs from it, the candidates are exactly the remote strings that do.
C2_RemoteTakesPrecedence ==
    (ActedOn /\ Usable(last.remote, last.prefix) # {}) =>
        Range(last.candidates) = Usable(last.remote, last.prefix)

\* the local vocabulary of a buffer: reserved words and the buffer's words
Vocabulary(buf) ==
    kwlist \cup
    {SubSeq(buf, i, j) : <<i, j>> \in
        {p \in (1..Len(buf)) \X (1..Len(buf)) :
            /\ p[1] <= p[2]
            /\ \A k \in p[1]..p[2] : buf[k] \in WordChars
            /\ p[1] > 1 => buf[p[1] - 1] \notin WordChars
            /\ p[2] < Len(buf) => buf[p[2] + 1] \notin WordChars}}

\* s lists the strings of S once each, ascending by code point
IsAscendingListOf(s, S) ==
    /\ Range(s) = S
    /\ \A i \in DOMAIN s : \A j \in DOMAIN s : i < j => StrLess(s[i], s[j])

\* C3: when the remote source yields no usable candidate, the candidate list
\* is the strings of the local vocabulary that start with the prefix and
\* differ from it, each once, in ascending code-point order.
C3_LocalFallbackSorted ==
    [][(Idle /\ last'.outcome \in {"empty", "insert", "overlay", "no_bbox"}
          /\ Usable(last'.remote, last'.prefix) = {})
       => IsAscendingListOf(last'.candidates,
             {s \in Vocabulary(text) :
                StartsWith(s, last'.prefix) /\ s # last'.prefix})]_vars

\* C4: the candidate list never holds the same string twice.
C4_NoRepeatedCandidate ==
    ActedOn =>
        \A i \in DOMAIN last.candidates : \A j \in DOMAIN last.candidates :
            i # j => last.candidates[i] # last.candidates[j]

\* C5: with exactly one candidate c for the prefix p before the cursor,
\* show_autocomplete inserts c without its leading p at the cursor, so that
\* the text before the cursor ends with c, changes nothing else in the
\* buffer, and leaves the overlay state as it was.
C5_SingleCandidateInserted ==
    [][(Idle /\ Len(last'.candidates) = 1)
       => LET c == last'.candidates[1]
              p == last'.prefix
          IN  /\ SubSeq(text, cursor - Len(p) + 1, cursor) = p
              /\ text' = SubSeq(text, 1, cursor)
                            \o SubSeq(c, Len(p) + 1, Len(c))
                            \o SubSeq(text, cursor + 1, Len(text))
              /\ cursor' = cursor + Len(c) - Len(p)
              /\ SubSeq(text', cursor' - Len(c) + 1, cursor') = c
              /\ UNCHANGED overlayVars]_vars

\* a single candidate was inserted while an overlay was open
C5_Witness ==
    /\ last.outcome = "insert"
    /\ Len(last.candidates) = 1
    /\ last.inserted # <<>>
    /\ autocomplete_window = "live"

\* C6: at most one overlay is alive, also at every point inside a handler:
\* an open overlay is destroyed before the next one is created.
C6_AtMostOneOverlay ==
    /\ liveCount <= 1
    /\ peakLive <= 1
    /\ (liveCount = 1) <=> (autocomplete_window = "live")

\* an overlay was opened while another one was open
C6_Witness ==
    /\ last.outcome = "overlay"
    /\ last.replaced
    /\ autocomplete_window = "live"

(***************************************************************************)
(* Properties of the extension loader.                                     *)
(***************************************************************************)
\* C7: a module that imports and whose register call raises is recorded in
\* the loader's list of loaded modules all the same.
C7_RegisterFailureStillRecorded ==
    loadPc = "done" =>
        \A i \in DOMAIN registerCalls :
            behaviour[registerCalls[i]].ends = "Exception"
                => registerCalls[i] \in Range(extensions)

\* C8: after loading, every command of the Extensions menu belongs to a
\* module whose register call returned without raising.
C8_MenuOnlyFromRegistered ==
    loadPc = "done" =>
        \A i \in DOMAIN extensions_menu :
            behaviour[extensions_menu[i]].ends = "return"

\* the files of a listing the loader has to try: *.py, not starting with "_"
CandidateFiles(l) ==
    SelectSeq(l, LAMBDA f :
        /\ Len(f) >= 3
        /\ f[Len(f) - 2] = "." /\ f[Len(f) - 1] = "p" /\ f[Len(f)] = "y"
        /\ f[1] # "_")

TimesCalled(m) == Cardinality({i \in DOMAIN registerCalls : registerCalls[i] = m})

\* the loader does not raise, tries every candidate file in turn, calls the
\* register of every well-behaved module once, and loads nothing when there
\* is no extensions directory
LoaderContract ==
    /\ loadPc # "raised"
    /\ loadPc = "done" =>
          /\ attempted = [i \in DOMAIN CandidateFiles(listing) |->
                SubSeq(CandidateFiles(listing)[i], 1,
                       Len(CandidateFiles(listing)[i]) - 3)]
          /\ \A m \in DOMAIN behaviour :
                (/\ behaviour[m].import = "ok"
                 /\ behaviour[m].hasRegister
                 /\ behaviour[m].ends = "return") => TimesCalled(m) = 1
          /\ ~extDirExists =>
                extensions = <<>> /\ attempted = <<>> /\ stderr = <<>>

RaisesOnlyExceptions ==
    \A m \in DOMAIN behaviour :
        behaviour[m].import # "BaseException" /\ behaviour[m].ends # "BaseException"

BufferLine(buf, i) ==
    LET nl    == {k \in 1..Len(buf) : buf[k] = "\n"}
        start == IF i = 1 THEN 1
                 ELSE 1 + CHOOSE k \in nl : Cardinality({j \in nl : j <= k}) = i - 1
        after == {k \in nl : k >= start}
        stop  == IF after = {} THEN Len(buf) ELSE SetMin(after) - 1
    IN  SubSeq(buf, start, stop)

\* s without its leading whitespace
LeftStripped(s) ==
    LET keep == {k \in 1..Len(s) : s[k] \notin {" ", "\t", "\f"}}
    IN  IF keep = {} THEN <<>> ELSE SubSeq(s, SetMin(keep), Len(s))

\* the line, after leading whitespace, starts with a definition keyword,
\* whitespace, then exactly w followed by a word boundary
DefinesSymbol(line, w) ==
    \E kw \in {<<"d", "e", "f">>, <<"c", "l", "a", "s", "s">>} :
        LET body == LeftStripped(line)
            rest == SubSeq(body, Len(kw) + 1, Len(body))
            name == LeftStripped(rest)
        IN  /\ w # <<>>
            /\ Len(body) >= Len(kw) /\ SubSeq(body, 1, Len(kw)) = kw
            /\ Len(name) < Len(rest)
            /\ Len(name) >= Len(w) /\ SubSeq(name, 1, Len(w)) = w
            /\ (w[Len(w)] \in WordChars)
                  # (Len(name) > Len(w) /\ name[Len(w) + 1] \in WordChars)

DefiningLines(buf, w) ==
    {i \in 1..(1 + Cardinality({k \in 1..Len(buf) : buf[k] = "\n"})) :
        DefinesSymbol(BufferLine(buf, i), w)}

\* C10: for a non-empty word w under the cursor that some line defines,
\* goto_definition moves the cursor to column 0 of the lowest-numbered line
\* defining w and marks that line.
C10_JumpsToFirstDefinition ==
    [][(/\ Idle
        /\ last'.outcome \in {"goto_hit", "goto_miss", "goto_none"}
        /\ GetCurrentWord # <<>>
        /\ DefiningLines(text, GetCurrentWord) # {})
       => LET first == SetMin(DefiningLines(text, GetCurrentWord))
          IN  /\ cursor' + 1 = IF first = 1 THEN 1
                    ELSE 1 + CHOOSE k \in 1..Len(text) :
                            /\ text[k] = "\n"
                            /\ Cardinality({j \in 1..k : text[j] = "\n"}) = first - 1
              /\ definitionMark' = first]_vars

\* C11: a navigation miss changes nothing.  When the word under the cursor
\* is empty, or no line defines it, goto_definition leaves the buffer, the
\* cursor and the definition mark as they are and shows exactly one notice,
\* "no symbol selected" or "definition not found" with the word; the state
\* being the same, a repeated call meets the same word and the same miss.
C11_MissChangesNothing ==
    [][(/\ Idle
        /\ last'.outcome \in {"goto_hit", "goto_miss", "goto_none"}
        /\ \/ GetCurrentWord = <<>>
           \/ DefiningLines(text, GetCurrentWord) = {})
       => /\ text' = text
          /\ cursor' = cursor
          /\ definitionMark' = definitionMark
          /\ notices' = <<[msg  |-> IF GetCurrentWord = <<>>
                                    THEN "No symbol selected"
                                    ELSE "Definition not found",
                           word |-> GetCurrentWord]>>
          /\ GetCurrentWord' = GetCurrentWord
          /\ DefiningLines(text', GetCurrentWord') = DefiningLines(text, GetCurrentWord)]_vars

(***************************************************************************)
(* Properties of the remote source's failures and of the empty prefix.     *)
(***************************************************************************)
FailureResponses == {r \in Responses : r.kind \in FailureKinds}

\* C12: every failure of the remote completion call (missing API key,
\* transport error, timeout, non-success status, malformed or unexpected
\* payload) gives an empty remote result without raising, and
\* show_autocomplete goes on with the local candidates, without raising and
\* without showing an error.
C12_RemoteFailureDegradesToLocal ==
    [][(/\ Idle
        /\ last'.outcome \in {"noop", "raised", "empty", "insert", "overlay",
                              "no_bbox"})
       => /\ \A resp \in FailureResponses :
                ~FetchRaises(resp) /\ FetchCodeSuggestions(resp) = <<>>
          /\ (/\ last'.remote = <<>>
              /\ \E resp \in FailureResponses :
                    /\ last'.fetched = (resp.kind # "no_api_key")
                          \/ last'.outcome \in {"noop", "raised"}
                    /\ ShowAutocomplete(resp, last'.outcome # "no_bbox"))
             => /\ last'.outcome # "raised"
                /\ notices' = <<>>
                /\ Strip(GetCurrentPrefix) # <<>> =>
                      /\ last'.candidates = LocalSuggestions(GetCurrentPrefix)
                      /\ Len(last'.candidates) = 0 => last'.outcome = "empty"
                      /\ Len(last'.candidates) = 1 => last'.outcome = "insert"
                      /\ Len(last'.candidates) >= 2 =>
                            last'.outcome \in {"overlay", "no_bbox"}]_vars

\* the API key is missing and the overlay lists the local candidates
C12_Witness ==
    /\ last.outcome = "overlay"
    /\ ~last.fetched
    /\ last.remote = <<>>
    /\ Len(last.candidates) >= 2
    /\ autocomplete_listbox.items = last.candidates

\* C13: with an empty prefix at the cursor (the cursor is not inside or at
\* the end of a word) show_autocomplete is a no-op: the remote source is
\* not invoked, no local candidate is computed, and buffer, cursor and
\* overlay stay as they are.
C13_EmptyPrefixIsNoOp ==
    [][(/\ Idle
        /\ last'.outcome \in {"noop", "raised", "empty", "insert", "overlay",
                              "no_bbox"}
        /\ \/ cursor = 0
           \/ ~IsWordChar(text[cursor])
           \/ ~IsWordChar(CharAt(text, cursor)))
       => /\ last'.outcome = "noop"
          /\ ~last'.fetched
          /\ last'.remote = <<>>
          /\ last'.candidates = <<>>
          /\ last'.inserted = <<>>
          /\ text' = text
          /\ cursor' = cursor
          /\ autocomplete_window' = autocomplete_window
          /\ autocomplete_listbox' = autocomplete_listbox
          /\ liveCount' = liveCount
          /\ notices' = <<>>]_vars

\* the trigger found no prefix in a buffer with words, an overlay being open
C13_Witness ==
    /\ last.outcome = "noop"
    /\ last.prefix = <<>>
    /\ \E i \in 1..Len(text) : IsWordChar(text[i])
    /\ autocomplete_window = "live"
    /\ Len(autocomplete_listbox.items) >= 2

(***************************************************************************)
(* Properties of the overlay's life.                                       *)
(***************************************************************************)
\* a step of show_autocomplete that found two or more candidates
SeveralCandidates ==
    /\ Idle
    /\ last'.outcome \in {"noop", "raised", "empty", "insert", "overlay",
                          "no_bbox"}
    /\ Len(last'.candidates) >= 2

\* exactly one overlay is live and lists the candidates in their order
OneOverlayListing(candidates) ==
    /\ autocomplete_window' = "live"
    /\ liveCount' = 1
    /\ autocomplete_listbox'.items = candidates

\* C14 as stated: whenever the candidate list has two or more elements,
\* show_autocomplete ends with exactly one live overlay that lists all of
\* them in candidate-list order, the buffer unchanged; no trigger with two or
\* more candidates ends without a live overlay.
C14_SeveralCandidatesOpenOverlay ==
    [][SeveralCandidates
       => /\ OneOverlayListing(last'.candidates)
          /\ text' = text]_vars

\* C14, amended: with two or more candidates the buffer is unchanged; when
\* the widget has a bounding box for the insert position the handler ends
\* with exactly one live overlay listing the candidates in order, and when it
\* has none (the cursor is scrolled out of view) it ends with no live
\* overlay at all.
C14_OverlayWhenCursorVisible ==
    [][SeveralCandidates
       => /\ last'.candidates = Suggestions(GetCurrentPrefix, last'.remote)
          /\ text' = text
          /\ cursor' = cursor
          /\ last'.outcome \in {"overlay", "no_bbox"}
          /\ last'.outcome = "overlay" =>
                /\ OneOverlayListing(last'.candidates)
                /\ autocomplete_listbox'.prefix = GetCurrentPrefix
          /\ last'.outcome = "no_bbox" =>
                /\ autocomplete_window' # "live"
                /\ liveCount' = 0]_vars

\* a first overlay, opened for candidates of the remote source
C14_Witness ==
    /\ last.outcome = "overlay"
    /\ ~last.replaced
    /\ Len(last.remote) >= 2
    /\ autocomplete_window = "live"
    /\ autocomplete_listbox.items = last.candidates

\* the buffer after s was inserted at the cursor
InsertedAtCursor(s) ==
    /\ text' = SubSeq(text, 1, cursor) \o s \o SubSeq(text, cursor + 1, Len(text))
    /\ cursor' = cursor + Len(s)

\* candidate c without the first n characters
Stripped(c, n) == SubSeq(c, n + 1, Len(c))

\* C15: every terminating action on a live overlay tears it down.  A confirm
\* key or a double click inserts the selected candidate, the prefix stripped,
\* at the cursor and destroys the overlay; a confirm with no entry selected
\* and the cancel key destroy it without changing the buffer; afterwards no
\* overlay is live.
C15_TerminatingActionTearsDown ==
    [][(/\ autocomplete_window = "live"
        /\ \/ ListboxReturn
           \/ \E i \in 1..Len(autocomplete_listbox.items) : ListboxDoubleClick(i)
           \/ ListboxEscape)
       => /\ autocomplete_window' # "live"
          /\ liveCount' = 0
          /\ (ListboxReturn /\ autocomplete_listbox.sel # 0) =>
                InsertedAtCursor(
                    Stripped(autocomplete_listbox.items[autocomplete_listbox.sel],
                             Len(autocomplete_listbox.prefix)))
          /\ (ListboxReturn /\ autocomplete_listbox.sel = 0) =>
                (text' = text /\ cursor' = cursor)
          /\ \A i \in 1..Len(autocomplete_listbox.items) :
                ListboxDoubleClick(i) =>
                    InsertedAtCursor(Stripped(autocomplete_listbox.items[i],
                                              Len(autocomplete_listbox.prefix)))
          /\ ListboxEscape => (text' = text /\ cursor' = cursor)]_vars

\* an entry of the overlay was confirmed: its suffix is in the buffer and the
\* overlay is gone
C15_Witness ==
    /\ last.outcome = "confirm"
    /\ last.inserted # <<>>
    /\ autocomplete_window = "destroyed"
    /\ liveCount = 0
    /\ cursor >= Len(last.inserted)
    /\ SubSeq(text, cursor - Len(last.inserted) + 1, cursor) = last.inserted

\* C16: a completion is never inserted for a prefix the user has since
\* changed.  Whenever a suffix is inserted, by the single-candidate insertion
\* or by a selection in the overlay, the prefix the candidate was computed
\* for is the prefix at the cursor at the moment of the insertion.
C16_NoStaleInsertion ==
    [][(/\ Idle
        /\ last'.outcome \in {"insert", "confirm"})
       => last'.prefix = GetCurrentPrefix]_vars

(***************************************************************************)
(* Properties of the order of the two sources.                             *)
(***************************************************************************)
\* the strings a step of show_autocomplete puts before the user: the entries
\* of the overlay it opens, or the candidate whose suffix it inserts
Displayed ==
    IF last'.outcome = "overlay" THEN Range(autocomplete_listbox'.items)
    ELSE IF last'.outcome = "insert"
    THEN {GetCurrentPrefix \o SubSeq(text', cursor + 1, cursor')}
    ELSE {}

\* C17: within one attempt the remote source is consulted first and the
\* local vocabulary is used only after the remote attempt has ended with no
\* usable candidate.  The handler is one step of the main loop, the remote
\* call ending inside it: whatever it displays or inserts that the remote
\* result does not hold is displayed only when the remote result, already
\* there, has no string starting with the prefix, and never when the remote
\* result holds a usable candidate.
C17_LocalOnlyAfterRemote ==
    [][(/\ Idle
        /\ last'.outcome \in {"empty", "insert", "overlay", "no_bbox"})
       => /\ (Displayed \ Range(last'.remote) # {}) =>
                /\ Usable(last'.remote, GetCurrentPrefix) = {}
                /\ \A s \in Range(last'.remote) : ~StartsWith(s, GetCurrentPrefix)
                /\ Displayed \subseteq Vocabulary(text)
          /\ Usable(last'.remote, GetCurrentPrefix) # {} =>
                /\ Displayed \subseteq Range(last'.remote)
                /\ Range(last'.candidates) \subseteq Range(last'.remote)]_vars

\* the remote call answered with nothing for the prefix, and the overlay
\* lists local candidates
C17_Witness ==
    /\ last.outcome = "overlay"
    /\ last.fetched
    /\ last.remote # <<>>
    /\ Usable(last.remote, last.prefix) = {}
    /\ Range(autocomplete_listbox.items) \cap Range(last.remote) = {}
    /\ Len(autocomplete_listbox.items) >= 2

=============================================================================
